---- MODULE Spec2Model ----
(***************************************************************************)
(* Maximum path sum in a number triangle (Project Euler 18), src/main.py.  *)
(*                                                                         *)
(* compute_trellis fills, row by row, a trellis of (best_sum,              *)
(* parent_offset) pairs; compute_best_path picks the best cell of the last *)
(* row and walks the parent offsets back to the apex.                      *)
(*                                                                         *)
(* Python lists and tuples are TLA+ sequences; the code's 0-based and      *)
(* negative indices are kept and translated by PyPos/PyGet/PySet, so       *)
(* triangle[i][j] of the code is PyGet(PyGet(triangle, i), j) here.        *)
(***************************************************************************)
EXTENDS Integers, Sequences, FiniteSets, TLC

\* ------------------------------------------------------------- bounds
\* Well-formed inputs: up to MaxRows rows with at most MaxNonZero entries
\* different from 0.
MaxRows == 5
MaxNonZero == 2
\* Inputs of any shape: up to MaxBadRows rows of 0..MaxBadLen entries each.
MaxBadRows == 3
MaxBadLen == 3
\* Inputs of the any-order row fill (SpecPar): up to ParRows rows.
ParRows == 4

\* ------------------------------------------------- program constants
\* The two parent offsets the trellis stores, and the apex's dummy value.
LEFT == -1
RIGHT == 0
DUMMY == 1

VARIABLES
    triangle,   \* the input: a list of lists of integers
    trellis,    \* compute_trellis' local, then compute_best_path's argument
    pc,         \* where the run stands
    i,          \* compute_trellis: the row being filled
    j,          \* compute_trellis: the inner column being filled
    filled,     \* any-order fill only: the columns of row i already filled
    curr_i,     \* compute_best_path: the row of the walk
    curr_j,     \* compute_best_path: the column of the walk
    step_j,     \* compute_best_path: the parent offset last read
    best_sum,   \* compute_best_path: the total it returns
    best_path,  \* compute_best_path: the path it builds
    reads,      \* history: the (row, column) cells the walk has read
    outcome,    \* "running", "returned" or the exception raised
    raised_in   \* the function the exception came out of

vars == <<triangle, trellis, pc, i, j, filled, curr_i, curr_j, step_j,
          best_sum, best_path, reads, outcome, raised_in>>

\* ---------------------------------------------------- Python indexing
\* seq[k] is defined for -len(seq) <= k < len(seq); anything else raises
\* IndexError.
PyOK(seq, k) == -Len(seq) <= k /\ k < Len(seq)

PyPos(seq, k) == IF k >= 0 THEN k + 1 ELSE Len(seq) + k + 1

PyGet(seq, k) == seq[PyPos(seq, k)]

PySet(seq, k, v) == [seq EXCEPT ![PyPos(seq, k)] = v]

\* trellis[r][c] = v
SetCell(trl, r, c, v) == [trl EXCEPT ![PyPos(trl, r)] = PySet(trl[PyPos(trl, r)], c, v)]

\* Python's tuple comparison a > b on pairs: lexicographic.
TupleGT(a, b) == a[1] > b[1] \/ (a[1] = b[1] /\ a[2] > b[2])

RECURSIVE SumSeq(_)
SumSeq(s) == IF s = <<>> THEN 0 ELSE Head(s) + SumSeq(Tail(s))

\* -------------------------------------------------------------- inputs
\* What read_triangle can hand over: any list of lists of integers. The
\* entries drawn are -1, 0 and 1; the two triangles of the documentation
\* bring larger ones.
NonZeroVals == {-1, 1}

\* The subsets of S with at most k elements.
RECURSIVE KSubsets(_, _)
KSubsets(S, k) ==
    IF k = 0 THEN {{}}
    ELSE LET P == KSubsets(S, k - 1)
         IN  P \cup {p \cup {x} : p \in P, x \in S}

\* A shape is the list of the rows' lengths.
CellsOf(shape) == UNION {{<<r, c>> : c \in 1..shape[r]} : r \in 1..Len(shape)}

Fill(shape, S, f) ==
    [r \in 1..Len(shape) |->
        [c \in 1..shape[r] |-> IF <<r, c>> \in S THEN f[<<r, c>>] ELSE 0]]

TriShape(n) == [r \in 1..n |-> r]

\* The triangles of the source's header comment and of the spec's tests.
KnownTriangle == <<<<3>>, <<7, 4>>, <<2, 4, 6>>, <<8, 5, 9, 3>>>>

NegativeTriangle == <<<<1>>, <<-5, -5>>, <<1, 1, 1>>>>

\* The input is a list of that shape with at most k entries different from 0.
DrawSparse(shape, k) ==
    \E S \in KSubsets(CellsOf(shape), k) :
        \E f \in [S -> NonZeroVals] : triangle = Fill(shape, S, f)

\* The input is a triangle of at most maxn rows.
DrawWellFormed(maxn) ==
    \/ \E n \in 1..maxn : DrawSparse(TriShape(n), MaxNonZero)
    \/ triangle \in {KnownTriangle, NegativeTriangle}

\* The input is a list of rows of any lengths, the empty list included.
DrawAnyShape ==
    \E n \in 0..MaxBadRows :
        \E shape \in [1..n -> 0..MaxBadLen] : DrawSparse(shape, 1)

\* Row i (0-based) has exactly i+1 entries.
WellFormed(tri) == \A r \in 1..Len(tri) : Len(tri[r]) = r

SameShape(a, b) ==
    /\ Len(a) = Len(b)
    /\ \A r \in 1..Len(a) : Len(a[r]) = Len(b[r])

\* ------------------------------------------------------ compute_trellis
\* line 81: a trellis of (0, 0) pairs, of the triangle's shape
BlankTrellis(tri) == [r \in 1..Len(tri) |-> [c \in 1..Len(tri[r]) |-> <<0, 0>>]]

\* line 84: the apex cell
ApexCell(tri) == <<PyGet(PyGet(tri, 0), 0), DUMMY>>

ApexOK(tri) == PyOK(tri, 0) /\ PyOK(PyGet(tri, 0), 0)

\* LeftCell recording the offset of the other edge.
LeftCellWrongOffset(trl, tri, r) ==
    <<PyGet(PyGet(PyGet(trl, r - 1), 0), 0) + PyGet(PyGet(tri, r), 0), LEFT>>

\* line 89: the leftmost cell of row r
LeftCell(trl, tri, r) ==
    <<PyGet(PyGet(PyGet(trl, r - 1), 0), 0) + PyGet(PyGet(tri, r), 0), RIGHT>>

LeftOK(trl, tri, r) == PyOK(PyGet(trl, r - 1), 0) /\ PyOK(PyGet(tri, r), 0)

\* RightCell recording the offset of the other edge.
RightCellWrongOffset(trl, tri, r) ==
    <<PyGet(PyGet(PyGet(trl, r - 1), -1), 0) + PyGet(PyGet(tri, r), -1), RIGHT>>

\* line 90: the rightmost cell of row r
RightCell(trl, tri, r) ==
    <<PyGet(PyGet(PyGet(trl, r - 1), -1), 0) + PyGet(PyGet(tri, r), -1), LEFT>>

RightOK(trl, tri, r) == PyOK(PyGet(trl, r - 1), -1) /\ PyOK(PyGet(tri, r), -1)

\* InnerRange running one column too far: range(1, len(trellis[i])).
InnerRangeOffByOne(trl, r) == 1..(Len(PyGet(trl, r)) - 1)

\* line 93: range(1, len(trellis[i]) - 1)
InnerRange(trl, r) == 1..(Len(PyGet(trl, r)) - 2)

\* BestS taking the smaller candidate: min in place of max.
BestSMin(trl, r, c) ==
    IF TupleGT(PyGet(PyGet(trl, r - 1), c + LEFT), PyGet(PyGet(trl, r - 1), c + RIGHT))
    THEN RIGHT
    ELSE LEFT

\* line 94: max([-1, 0], key=lambda s: trellis[i-1][j+s]); max keeps the
\* first of the list unless a later one compares strictly greater, and the
\* key is the whole (best_sum, parent_offset) pair.
BestS(trl, r, c) ==
    IF TupleGT(PyGet(PyGet(trl, r - 1), c + RIGHT), PyGet(PyGet(trl, r - 1), c + LEFT))
    THEN RIGHT
    ELSE LEFT

\* line 94 evaluates the key of both candidates
InnerOK(trl, r, c) ==
    PyOK(PyGet(trl, r - 1), c + LEFT) /\ PyOK(PyGet(trl, r - 1), c + RIGHT)

\* InnerCell reading the candidates in the row being filled: trellis[i][j+s].
InnerCellSameRow(trl, tri, r, c) ==
    LET best_s == IF TupleGT(PyGet(PyGet(trl, r), c + RIGHT), PyGet(PyGet(trl, r), c + LEFT))
                  THEN RIGHT
                  ELSE LEFT
        this_elt == PyGet(PyGet(tri, r), c)
    IN  <<PyGet(PyGet(PyGet(trl, r), c + best_s), 0) + this_elt, best_s>>

\* lines 94-96: the inner cell (r, c)
InnerCell(trl, tri, r, c) ==
    LET best_s == BestS(trl, r, c)
        this_elt == PyGet(PyGet(tri, r), c)
    IN  <<PyGet(PyGet(PyGet(trl, r - 1), c + best_s), 0) + this_elt, best_s>>

\* An exception leaves the function fn: its locals are gone.
Raise(exc, fn) ==
    /\ pc' = "error"
    /\ outcome' = exc
    /\ raised_in' = fn

\* lines 81-84: build the blank trellis and set the apex
TrellisInit ==
    /\ pc = "start"
    /\ IF ApexOK(triangle)
       THEN /\ trellis' = SetCell(BlankTrellis(triangle), 0, 0, ApexCell(triangle))
            /\ i' = 1
            /\ pc' = "row"
            /\ UNCHANGED <<outcome, raised_in>>
       ELSE /\ Raise("IndexError", "compute_trellis")
            /\ trellis' = <<>>
            /\ UNCHANGED i
    /\ UNCHANGED <<triangle, j, filled, curr_i, curr_j, step_j, best_sum, best_path, reads>>

\* lines 87, 89: enter row i and fill its leftmost cell
FillLeft ==
    /\ pc = "row"
    /\ i < Len(trellis)
    /\ IF LeftOK(trellis, triangle, i)
       THEN /\ trellis' = SetCell(trellis, i, 0, LeftCell(trellis, triangle, i))
            /\ pc' = "right"
            /\ UNCHANGED <<outcome, raised_in>>
       ELSE /\ Raise("IndexError", "compute_trellis")
            /\ trellis' = <<>>
    /\ UNCHANGED <<triangle, i, j, filled, curr_i, curr_j, step_j, best_sum, best_path, reads>>

\* line 90: fill the rightmost cell of row i
FillRight ==
    /\ pc = "right"
    /\ IF RightOK(trellis, triangle, i)
       THEN /\ trellis' = SetCell(trellis, i, -1, RightCell(trellis, triangle, i))
            /\ j' = 1
            /\ pc' = "inner"
            /\ UNCHANGED <<outcome, raised_in>>
       ELSE /\ Raise("IndexError", "compute_trellis")
            /\ trellis' = <<>>
            /\ UNCHANGED j
    /\ UNCHANGED <<triangle, i, filled, curr_i, curr_j, step_j, best_sum, best_path, reads>>

\* FillInner accumulating in place: the sum is written into the triangle too.
FillInnerInPlace ==
    /\ pc = "inner"
    /\ j \in InnerRange(trellis, i)
    /\ InnerOK(trellis, i, j)
    /\ trellis' = SetCell(trellis, i, j, InnerCell(trellis, triangle, i, j))
    /\ triangle' = SetCell(triangle, i, j, PyGet(PyGet(PyGet(trellis', i), j), 0))
    /\ j' = j + 1
    /\ UNCHANGED <<pc, outcome, raised_in, i, filled, curr_i, curr_j, step_j, best_sum,
                   best_path, reads>>

\* lines 93-96: fill the inner cell (i, j)
FillInner ==
    /\ pc = "inner"
    /\ j \in InnerRange(trellis, i)
    /\ IF InnerOK(trellis, i, j)
       THEN /\ trellis' = SetCell(trellis, i, j, InnerCell(trellis, triangle, i, j))
            /\ j' = j + 1
            /\ UNCHANGED <<pc, outcome, raised_in>>
       ELSE /\ Raise("IndexError", "compute_trellis")
            /\ trellis' = <<>>
            /\ UNCHANGED j
    /\ UNCHANGED <<triangle, i, filled, curr_i, curr_j, step_j, best_sum, best_path, reads>>

\* lines 93, 87: the inner loop is over, on to the next row
NextRow ==
    /\ pc = "inner"
    /\ j \notin InnerRange(trellis, i)
    /\ i' = i + 1
    /\ pc' = "row"
    /\ UNCHANGED <<triangle, trellis, j, filled, curr_i, curr_j, step_j, best_sum,
                   best_path, reads, outcome, raised_in>>

\* lines 87, 98: the row loop is over, the trellis is returned
ReturnTrellis ==
    /\ pc = "row"
    /\ i >= Len(trellis)
    /\ pc' = "built"
    /\ UNCHANGED <<triangle, trellis, i, j, filled, curr_i, curr_j, step_j, best_sum,
                   best_path, reads, outcome, raised_in>>

\* lines 81-98 as a function of the triangle, for a triangle that takes
\* compute_trellis to its return
RECURSIVE FillInnerFrom(_, _, _, _)
FillInnerFrom(trl, tri, r, c) ==
    IF c \in InnerRange(trl, r)
    THEN FillInnerFrom(SetCell(trl, r, c, InnerCell(trl, tri, r, c)), tri, r, c + 1)
    ELSE trl

FillRow(trl, tri, r) ==
    LET l == SetCell(trl, r, 0, LeftCell(trl, tri, r))
        lr == SetCell(l, r, -1, RightCell(l, tri, r))
    IN  FillInnerFrom(lr, tri, r, 1)

RECURSIVE FillRowsFrom(_, _, _)
FillRowsFrom(trl, tri, r) ==
    IF r < Len(trl) THEN FillRowsFrom(FillRow(trl, tri, r), tri, r + 1) ELSE trl

SeqTrellis(tri) ==
    FillRowsFrom(SetCell(BlankTrellis(tri), 0, 0, ApexCell(tri)), tri, 1)

\* ---------------------------------------------------- compute_best_path
\* line 118: max(enumerate(row), key=lambda x: x[1][0]) keeps the first
\* index unless a later one has a strictly greater best_sum
RECURSIVE MaxScan(_, _, _)
MaxScan(row, k, best) ==
    IF k >= Len(row) THEN best
    ELSE MaxScan(row, k + 1,
                 IF PyGet(PyGet(row, k), 0) > PyGet(PyGet(row, best), 0) THEN k ELSE best)

\* Endpoint keeping the last of the tied columns: >= in place of >.
RECURSIVE MaxScanLast(_, _, _)
MaxScanLast(row, k, best) ==
    IF k >= Len(row) THEN best
    ELSE MaxScanLast(row, k + 1,
                     IF PyGet(PyGet(row, k), 0) >= PyGet(PyGet(row, best), 0) THEN k ELSE best)

EndpointLast(row) == MaxScanLast(row, 1, 0)

Endpoint(row) == MaxScan(row, 1, 0)

\* Reverse left out: the path stays bottom to top.
NoReverse(s) == s

\* line 134: list.reverse()
Reverse(s) == [k \in 1..Len(s) |-> s[Len(s) + 1 - k]]

\* FindEndpoint answering an empty trellis with an empty result.
FindEndpointEmptyOK ==
    /\ pc = "built" \/ (pc = "start" /\ triangle = <<>>)
    /\ IF trellis = <<>>
       THEN /\ pc' = "done"
            /\ outcome' = "returned"
            /\ UNCHANGED <<curr_i, curr_j, best_sum, raised_in>>
       ELSE /\ curr_j' = Endpoint(PyGet(trellis, -1))
            /\ best_sum' = PyGet(PyGet(PyGet(trellis, -1), curr_j'), 0)
            /\ curr_i' = Len(trellis) - 1
            /\ pc' = "walk"
            /\ UNCHANGED <<outcome, raised_in>>
    /\ UNCHANGED <<triangle, trellis, i, j, filled, step_j, best_path, reads>>

\* lines 118-128: pick the endpoint in the last row and set up the walk.
\* main calls it on the trellis compute_trellis returned; a caller with an
\* empty triangle has only the empty trellis to pass.
FindEndpoint ==
    /\ pc = "built" \/ (pc = "start" /\ triangle = <<>>)
    /\ IF ~PyOK(trellis, -1)
       THEN /\ Raise("IndexError", "compute_best_path")
            /\ UNCHANGED <<curr_i, curr_j, best_sum>>
       ELSE IF PyGet(trellis, -1) = <<>>
       THEN /\ Raise("ValueError", "compute_best_path")
            /\ UNCHANGED <<curr_i, curr_j, best_sum>>
       ELSE /\ curr_j' = Endpoint(PyGet(trellis, -1))
            /\ best_sum' = PyGet(PyGet(PyGet(trellis, -1), curr_j'), 0)
            /\ curr_i' = Len(trellis) - 1
            /\ pc' = "walk"
            /\ UNCHANGED <<outcome, raised_in>>
    /\ UNCHANGED <<triangle, trellis, i, j, filled, step_j, best_path, reads>>

\* lines 129-133: one step of the walk up the trellis
WalkStep ==
    /\ pc = "walk"
    /\ curr_i >= 0
    /\ IF PyOK(triangle, curr_i) /\ PyOK(PyGet(triangle, curr_i), curr_j)
          /\ PyOK(PyGet(trellis, curr_i), curr_j)
       THEN /\ best_path' = Append(best_path, PyGet(PyGet(triangle, curr_i), curr_j))
            /\ step_j' = PyGet(PyGet(PyGet(trellis, curr_i), curr_j), 1)
            /\ curr_i' = curr_i - 1
            /\ curr_j' = curr_j + step_j'
            /\ reads' = Append(reads, <<curr_i, curr_j>>)
            /\ UNCHANGED <<pc, outcome, raised_in>>
       ELSE /\ Raise("IndexError", "compute_best_path")
            /\ UNCHANGED <<best_path, step_j, curr_i, curr_j, reads>>
    /\ UNCHANGED <<triangle, trellis, i, j, filled, best_sum>>

\* lines 129, 134-136: the walk is over; reverse the path and return
WalkEnd ==
    /\ pc = "walk"
    /\ curr_i < 0
    /\ best_path' = Reverse(best_path)
    /\ outcome' = "returned"
    /\ pc' = "done"
    /\ UNCHANGED <<triangle, trellis, i, j, filled, curr_i, curr_j, step_j, best_sum,
                   reads, raised_in>>

\* -------------------------------------------------------- specification
InitLocals ==
    /\ trellis = <<>>
    /\ pc = "start"
    /\ i = 0
    /\ j = 0
    /\ filled = {}
    /\ curr_i = 0
    /\ curr_j = 0
    /\ step_j = 0
    /\ best_sum = 0
    /\ best_path = <<>>
    /\ reads = <<>>
    /\ outcome = "running"
    /\ raised_in = "none"

Init ==
    /\ DrawWellFormed(MaxRows) \/ DrawAnyShape
    /\ InitLocals

Next ==
    \/ TrellisInit
    \/ FillLeft
    \/ FillRight
    \/ FillInner
    \/ NextRow
    \/ ReturnTrellis
    \/ FindEndpoint
    \/ WalkStep
    \/ WalkEnd

Spec == Init /\ [][Next]_vars

\* ------------------------------------------- any-order fill of a row
\* The cell (r, c) as compute_trellis computes it: line 89 for the leftmost
\* column, line 90 for the rightmost, lines 94-96 for the others.
CellAt(trl, tri, r, c) ==
    IF c = 0 THEN LeftCell(trl, tri, r)
    ELSE IF c = Len(PyGet(trl, r)) - 1 THEN RightCell(trl, tri, r)
    ELSE InnerCell(trl, tri, r, c)

ColumnsOf(trl, r) == 0..(Len(PyGet(trl, r)) - 1)

\* lines 89-96 for one cell of row i, the cells taken in any order
ParFill ==
    /\ pc = "row"
    /\ i < Len(trellis)
    /\ \E c \in ColumnsOf(trellis, i) \ filled :
          /\ trellis' = SetCell(trellis, i, c, CellAt(trellis, triangle, i, c))
          /\ filled' = filled \cup {c}
    /\ UNCHANGED <<triangle, pc, i, j, curr_i, curr_j, step_j, best_sum, best_path,
                   reads, outcome, raised_in>>

\* line 87: row i is complete, on to the next row
ParNextRow ==
    /\ pc = "row"
    /\ i < Len(trellis)
    /\ filled = ColumnsOf(trellis, i)
    /\ i' = i + 1
    /\ filled' = {}
    /\ UNCHANGED <<triangle, trellis, pc, j, curr_i, curr_j, step_j, best_sum, best_path,
                   reads, outcome, raised_in>>

InitPar ==
    /\ DrawWellFormed(ParRows)
    /\ InitLocals

NextPar ==
    \/ TrellisInit
    \/ ParFill
    \/ ParNextRow
    \/ ReturnTrellis

SpecPar == InitPar /\ [][NextPar]_vars

\* ------------------------------------------------------------ reference
\* The paths from the apex to (r, c), as the lists of their columns: each
\* step goes from (k, c) to (k+1, c) or (k+1, c+1).
RECURSIVE PathsTo(_, _)
PathsTo(r, c) ==
    IF r = 0 THEN (IF c = 0 THEN {<<0>>} ELSE {})
    ELSE LET fromLeft == IF c >= 1 THEN PathsTo(r - 1, c - 1) ELSE {}
             fromAbove == IF c <= r - 1 THEN PathsTo(r - 1, c) ELSE {}
         IN  {Append(p, c) : p \in fromLeft \cup fromAbove}

ValuesAlong(tri, p) == [k \in 1..Len(p) |-> PyGet(PyGet(tri, k - 1), p[k])]

PathSum(tri, p) == SumSeq(ValuesAlong(tri, p))

MaxOf(S) == CHOOSE x \in S : \A y \in S : y <= x

MinOf(S) == CHOOSE x \in S : \A y \in S : x <= y

MaxPathSum(tri, r, c) == MaxOf({PathSum(tri, p) : p \in PathsTo(r, c)})

BasePaths(n) == UNION {PathsTo(n - 1, c) : c \in 0..(n - 1)}

Sum(trl, r, c) == PyGet(PyGet(PyGet(trl, r), c), 0)

Offset(trl, r, c) == PyGet(PyGet(PyGet(trl, r), c), 1)

Rows == Len(triangle)

Triangular == triangle # <<>> /\ WellFormed(triangle)

\* ------------------------------------------------------------- claims
\* The cells whose two candidate parents hold the same best_sum.
TiedCells ==
    {rc \in {<<r, c>> : r \in 2..(Rows - 1), c \in 1..(Rows - 2)} :
        /\ rc[2] < rc[1]
        /\ Sum(trellis, rc[1] - 1, rc[2] - 1) = Sum(trellis, rc[1] - 1, rc[2])}

\* C1: for a well-formed triangle, the best_sum compute_trellis returns in
\* every cell (i, j) is the maximum, over all paths from the apex to (i, j),
\* of the sum of the triangle's values on the path.
C1_SumCorrect ==
    (pc = "built" /\ Triangular) =>
        \A r \in 0..(Rows - 1) : \A c \in 0..r :
            Sum(trellis, r, c) = MaxPathSum(triangle, r, c)

\* C1 witness: a returned trellis of a triangle of five rows or more that
\* holds a negative and a positive entry, with an inner cell whose two
\* candidate sums differ.
C1_Witness ==
    /\ pc = "built"
    /\ Triangular
    /\ Rows >= 5
    /\ \E r \in 1..Rows : \E c \in 1..r : triangle[r][c] < 0
    /\ \E r \in 1..Rows : \E c \in 1..r : triangle[r][c] > 0
    /\ \E r \in 2..(Rows - 1) : \E c \in 1..(r - 1) :
          Sum(trellis, r - 1, c - 1) # Sum(trellis, r - 1, c)

\* C2: for a well-formed triangle of n rows, the returned path has n
\* elements, they are the triangle's values along a path of columns that
\* starts at 0 and moves by 0 or 1 per row, and they add up to the returned
\* total; the triangle of the header comment gives 23 and [3, 7, 4, 9].
C2_PathValid ==
    (pc = "done" /\ Triangular) =>
        /\ Len(best_path) = Rows
        /\ \E p \in BasePaths(Rows) : best_path = ValuesAlong(triangle, p)
        /\ SumSeq(best_path) = best_sum
        /\ triangle = KnownTriangle => (best_sum = 23 /\ best_path = <<3, 7, 4, 9>>)

\* C2 witness: compute_best_path has returned for the header's triangle.
C2_Witness ==
    /\ pc = "done"
    /\ triangle = KnownTriangle
    /\ best_path = <<3, 7, 4, 9>>

\* The lowest column of the last row that holds the largest best_sum.
LowestBest ==
    LET last == Rows - 1
        top == MaxOf({Sum(trellis, last, c) : c \in 0..last})
    IN  MinOf({c \in 0..last : Sum(trellis, last, c) = top})

\* C3: the total is the largest best_sum of the last trellis row, which is
\* the maximum over all apex-to-base paths, and the walk starts at the
\* lowest column of the last row that holds it.
C3_EndpointBest ==
    (pc \in {"walk", "done"} /\ Triangular) =>
        /\ best_sum = MaxOf({Sum(trellis, Rows - 1, c) : c \in 0..(Rows - 1)})
        /\ (reads = <<>> \/ pc = "done") =>
               best_sum = MaxOf({PathSum(triangle, p) : p \in BasePaths(Rows)})
        /\ reads = <<>> => (curr_i = Rows - 1 /\ curr_j = LowestBest)
        /\ reads # <<>> => reads[1] = <<Rows - 1, LowestBest>>

\* C3 witness: the walk is about to start, two columns of the last row tie
\* for the largest best_sum, and the lower of them is not column 0.
C3_Witness ==
    /\ pc = "walk"
    /\ reads = <<>>
    /\ Triangular
    /\ curr_j > 0
    /\ \E c \in (curr_j + 1)..(Rows - 1) : Sum(trellis, Rows - 1, c) = best_sum

\* C4: in the returned trellis of a well-formed triangle, every inner cell
\* whose two candidate parents hold the same best_sum records LEFT,
\* whatever parent offsets the two candidates hold.
C4_TieLeft ==
    (pc = "built" /\ Triangular) =>
        \A rc \in TiedCells : Offset(trellis, rc[1], rc[2]) = LEFT

\* compute_trellis runs to its return on this list: no row is empty and no
\* row has more than one entry more than the row before it.
Completable(tri) ==
    /\ tri # <<>>
    /\ \A r \in 1..Len(tri) : Len(tri[r]) >= 1
    /\ \A r \in 2..Len(tri) : Len(tri[r]) <= Len(tri[r - 1]) + 1

Malformed == triangle # <<>> /\ ~WellFormed(triangle)

\* C5 as stated: given a triangle in which some row i does not have i+1
\* entries, compute_trellis ends in a ShapeError and returns no trellis.
C5_ShapeError ==
    Malformed =>
        /\ pc \notin {"built", "walk", "done"}
        /\ pc = "error" => outcome = "ShapeError"

\* C5 as amended: given such a triangle, compute_trellis never signals a
\* ShapeError; it raises IndexError and returns no trellis when a row is
\* empty or has more than one entry more than the row before it, and
\* otherwise returns a trellis of the triangle's shape.
C5_ShapeOutcome ==
    Malformed =>
        /\ outcome # "ShapeError"
        /\ (pc = "error" /\ raised_in = "compute_trellis") =>
               (outcome = "IndexError" /\ trellis = <<>> /\ ~Completable(triangle))
        /\ pc \in {"built", "walk", "done"} =>
               (Completable(triangle) /\ SameShape(trellis, triangle))
        /\ pc = "built" => outcome = "running"

\* C5 witness: compute_trellis has returned a trellis for a triangle whose
\* rows are not 1, 2, 3, ... entries long.
C5_Witness ==
    /\ Malformed
    /\ pc = "built"
    /\ Rows >= 2

\* C6 as stated: with zero rows, compute_trellis and compute_best_path both
\* end in EmptyTriangleError, with no partial result.
C6_EmptyTriangleError ==
    triangle = <<>> =>
        /\ pc \in {"start", "error"}
        /\ pc = "error" => outcome = "EmptyTriangleError"

\* C6 as amended: with zero rows, compute_trellis and compute_best_path both
\* end in IndexError (the code has no EmptyTriangleError), with no trellis
\* and no partial (sum, path) result.
C6_EmptyIndexError ==
    triangle = <<>> =>
        /\ pc \in {"start", "error"}
        /\ pc = "start" => (ENABLED TrellisInit /\ ENABLED FindEndpoint)
        /\ pc = "error" =>
               /\ outcome = "IndexError"
               /\ raised_in \in {"compute_trellis", "compute_best_path"}
        /\ trellis = <<>>
        /\ best_path = <<>>
        /\ reads = <<>>

\* C6 witness: compute_best_path has raised on the empty triangle.
C6_Witness ==
    /\ triangle = <<>>
    /\ pc = "error"
    /\ raised_in = "compute_best_path"

\* C7: no step of compute_trellis or compute_best_path changes the
\* triangle, and no step of compute_best_path changes the trellis.
C7_Frame ==
    [][/\ triangle' = triangle
       /\ (pc \in {"built", "walk"} \/ raised_in' = "compute_best_path") =>
              trellis' = trellis]_vars

\* C7 witness: both functions have run to their return on five rows or more.
C7_Witness ==
    /\ pc = "done"
    /\ Triangular
    /\ Rows >= 5
    /\ trellis = SeqTrellis(triangle)

\* C8: in the returned trellis of a well-formed triangle the apex holds
\* (triangle[0][0], dummy); every other cell holds an offset in {-1, 0} that
\* points into the row above and the sum of its own value and that parent's
\* best_sum; the leftmost cell holds RIGHT and the rightmost LEFT.
C8_TrellisStructure ==
    (pc = "built" /\ Triangular) =>
        /\ PyGet(PyGet(trellis, 0), 0) = <<PyGet(PyGet(triangle, 0), 0), DUMMY>>
        /\ \A r \in 1..(Rows - 1) : \A c \in 0..r :
              LET off == Offset(trellis, r, c)
              IN  /\ off \in {LEFT, RIGHT}
                  /\ 0 <= c + off
                  /\ c + off <= r - 1
                  /\ Sum(trellis, r, c) =
                         PyGet(PyGet(triangle, r), c) + Sum(trellis, r - 1, c + off)
                  /\ c = 0 => off = RIGHT
                  /\ c = r => off = LEFT

\* C8 witness: a returned trellis of five rows or more with an inner cell
\* that records LEFT and one that records RIGHT.
C8_Witness ==
    /\ pc = "built"
    /\ Triangular
    /\ Rows >= 5
    /\ \E r \in 2..(Rows - 1) : \E c \in 1..(r - 1) : Offset(trellis, r, c) = LEFT
    /\ \E r \in 2..(Rows - 1) : \E c \in 1..(r - 1) : Offset(trellis, r, c) = RIGHT

\* C9: with the cells of each row filled in any order, row i-1 complete
\* before row i starts, every cell filled so far holds what the sequential
\* order of compute_trellis puts there and every other cell is untouched,
\* so the returned trellis is the sequential one.
C9_AnyOrderSame ==
    (pc \in {"row", "built"} /\ Triangular) =>
        LET seq == SeqTrellis(triangle)
        IN  /\ \A r \in 0..(Rows - 1) : \A c \in 0..r :
                  PyGet(PyGet(trellis, r), c) =
                      IF r < i \/ (r = i /\ c \in filled)
                      THEN PyGet(PyGet(seq, r), c)
                      ELSE <<0, 0>>
            /\ pc = "built" => trellis = seq

\* C9 witness: an inner cell of a row is filled before the row's leftmost
\* and rightmost cells.
C9_Witness ==
    /\ pc = "row"
    /\ Triangular
    /\ i >= 2
    /\ i < Rows
    /\ filled # {}
    /\ 0 \notin filled
    /\ i \notin filled
    /\ Sum(trellis, i - 1, 0) # 0

\* C10: in the walk over the trellis of a well-formed triangle every cell
\* read lies in its row (0 <= curr_j <= curr_i), row 0 is read at column 0,
\* the apex's dummy offset is added only when the loop is over, and the
\* walk reads exactly one cell per row, from the last row up to row 0.
C10_WalkInBounds ==
    Triangular =>
        /\ raised_in # "compute_best_path"
        /\ (pc = "walk" /\ curr_i >= 0) =>
               /\ 0 <= curr_j
               /\ curr_j <= curr_i
               /\ curr_i = 0 => curr_j = 0
               /\ step_j # DUMMY
               /\ Len(reads) = Rows - 1 - curr_i
        /\ \A k \in 1..Len(reads) :
               /\ reads[k][1] = Rows - k
               /\ 0 <= reads[k][2]
               /\ reads[k][2] <= reads[k][1]
        /\ (pc = "walk" /\ curr_i < 0) => (curr_i = -1 /\ Len(reads) = Rows)
        /\ pc = "done" => (Len(reads) = Rows /\ reads[Rows] = <<0, 0>>)

\* C10 witness: a finished walk over five rows or more that started at the
\* rightmost column of the last row and ended at the apex.
C10_Witness ==
    /\ pc = "done"
    /\ Triangular
    /\ Rows >= 5
    /\ reads[1] = <<Rows - 1, Rows - 1>>
    /\ step_j = DUMMY

====
